---- MODULE Spec2Model ----
(***************************************************************************)
(* State machine of the trading dashboard client (the full variant,        *)
(* src/unnamed/part_000): the module-level data storage, the chart data    *)
(* the handlers write, and one action per DOM / Socket.IO handler.  The    *)
(* pages of the two other variants (src/static/js/dashboard.js and         *)
(* src/unnamed/part_001) are one record each, with their handlers as       *)
(* operators on that record.                                               *)
(***************************************************************************)
EXTENDS Integers, Sequences, FiniteSets, TLC

\* ------------------------------------------------------------------ bounds
\* update events delivered in one behaviour of Spec / SpecDecode
MaxUpdates == 2
\* start_simulation commands emitted in one behaviour
MaxStarts == 2
\* update events delivered in one behaviour of SpecLedger
MaxLedger == 3
\* update events delivered in one behaviour of SpecBrowse
MaxBrowse == 5
\* pieces of a search term typed in SpecBrowse
MaxTerm == 2
\* pieces of a news text in SpecNews
MaxNews == 3
\* update events of the server stream in SpecWindow
MaxStream == 32
\* in SpecWindow the user clicks and the run completes only during the first
\* ClickEarly or the last ClickLate events of the stream
ClickEarly == 3
ClickLate == 2
\* update events of a session with two runs
MaxStale == 3

\* --------------------------------------------------------- program constants
\* "Keep last 30 data points"
WindowMax == 30
\* the value JavaScript's ++ leaves when its operand is not a number
NaN == -1
\* the gap (null) of a performance series
Null == -2

\* ------------------------------------------------------- insertion-ordered
\* A JavaScript object with string keys, as the sequence of its own
\* properties in insertion order.
Keys(m) == [i \in 1..Len(m) |-> m[i].key]

Vals(m) == [i \in 1..Len(m) |-> m[i].val]

KeySet(m) == {m[i].key : i \in 1..Len(m)}

Has(m, k) == k \in KeySet(m)

Get(m, k) == m[CHOOSE i \in 1..Len(m) : m[i].key = k].val

Put(m, k, v) ==
    IF Has(m, k)
    THEN [i \in 1..Len(m) |-> IF m[i].key = k THEN [key |-> k, val |-> v] ELSE m[i]]
    ELSE Append(m, [key |-> k, val |-> v])

\* -------------------------------------------------------------------- texts
\* A string the program searches or parses is the sequence of its pieces: a
\* piece is a keyword of the program, a single character (digit, sign, blank)
\* or a run of characters that contains no keyword and completes none, so
\* that one text contains another exactly when its pieces contain the
\* other's pieces contiguously.  Pieces are compared as they are written:
\* "Crash" and "crash" are different pieces.

Lower(piece) ==
    CASE piece = "Crash" -> "crash"
      [] piece = "Very " -> "very "
      [] OTHER -> piece

\* faulty variant: the search ignores the case of the letters
Includes_IgnoreCase(text, term) ==
    \E i \in 0..(Len(text) - Len(term)) :
        \A j \in 1..Len(term) : Lower(text[i + j]) = Lower(term[j])

\* String.prototype.includes
Includes(text, term) ==
    \E i \in 0..(Len(text) - Len(term)) : SubSeq(text, i + 1, i + Len(term)) = term

\* ----------------------------------------------------------------- payloads
Dec(n, a, c, p, v) == [name |-> n, action |-> a, cash |-> c, pos |-> p, value |-> v]

Llm(fa, c, p, v) ==
    [manager_decision |-> [final_action |-> fa],
     portfolio |-> [cash |-> c, pos |-> p, value |-> v]]

\* `missing` names the required field the payload lacks ("none": a well-formed
\* StepSnapshot); the value written under an absent field is never read.
Snap(s, pr, nw, ds, l) ==
    [step |-> s, total_steps |-> 3, price |-> pr, news |-> nw,
     decisions |-> ds, llm |-> l, missing |-> "none"]

SnapA == Snap(1, 100, <<"Market ", "rally">>, <<Dec("Random", "buy", 50, 1, 100), Dec("Holder", "hold", 0, 2, 0)>>,
              Llm("buy", 40, 1, 140))

SnapB == Snap(2, 101, <<"crash">>, <<Dec("Random", "sell", 90, 0, 90)>>, Llm("hold", 40, 1, 141))

\* the same trader twice in one snapshot
SnapDup == Snap(2, 99, <<"steady">>, <<Dec("Random", "buy", 10, 1, 110), Dec("Random", "sell", 20, 0, 120)>>,
                Llm("sell", 150, 0, 150))

\* a decision that carries the synthetic name
SnapFund == Snap(3, 102, <<"upward">>, <<Dec("LLM Fund", "hold", 5, 5, 55)>>, Llm("buy", 60, 1, 160))

\* actions outside buy / sell / hold
SnapOdd == Snap(3, 98, <<"Slight ", "declin", "e">>, <<Dec("Holder", "constructor", 0, 2, 70), Dec("Trend", "short", 1, 1, 80)>>,
               Llm("toString", 30, 2, 130))

Snapshots == {SnapA, SnapB, SnapDup, SnapFund, SnapOdd}

Without(d, f) == [d EXCEPT !.missing = f]

Malformed == {Without(SnapA, f) : f \in {"news", "decisions", "llm", "portfolio"}}

Payloads ==
    {[has |-> FALSE, history |-> <<>>],
     [has |-> TRUE, history |-> <<>>],
     [has |-> TRUE, history |-> <<SnapA, SnapB>>]}

NoPayload == [has |-> FALSE, history |-> <<>>]

\* ------------------------------------------------------------ chart helpers
StepLabel(step) == "Step " \o ToString(step)

\* faulty variant: the window is never trimmed
PriceLabelsAfter_NoShift(labels, step) == Append(labels, StepLabel(step))

\* updatePriceChart: push, then shift both arrays once the labels exceed 30
PriceLabelsAfter(labels, step) ==
    LET pushed == Append(labels, StepLabel(step))
    IN  IF Len(pushed) > WindowMax THEN Tail(pushed) ELSE pushed

PriceDataAfter(labels, data, price, step) ==
    LET pushedLabels == Append(labels, StepLabel(step))
        pushed == Append(data, price)
    IN  IF Len(pushedLabels) > WindowMax THEN Tail(pushed) ELSE pushed

\* ------------------------------------------------------------- updateAgents
\* faulty variant: the first value seen for a name is kept
StorePerformance_FirstWins(ap, ds) ==
    IF ds = <<>> THEN ap
    ELSE IF Has(ap, Head(ds).name) THEN ap
    ELSE Put(ap, Head(ds).name, Head(ds).value)

RECURSIVE StorePerformance(_, _)
\* agentPerformance[agent.name] = agent.value, decision by decision
StorePerformance(ap, ds) ==
    IF ds = <<>> THEN ap
    ELSE StorePerformance(Put(ap, Head(ds).name, Head(ds).value), Tail(ds))

\* properties every object literal inherits from Object.prototype
ObjectPrototypeKeys == {"constructor", "toString", "valueOf", "hasOwnProperty"}

\* faulty variant: only trades are counted
InActionCounts_Trades(ac, a) == a \in {"buy", "sell"}

\* agent.action in actionCounts
InActionCounts(ac, a) == Has(ac, a) \/ a \in ObjectPrototypeKeys

\* actionCounts[agent.action]++
Increment(ac, a) ==
    Put(ac, a, IF Has(ac, a) /\ Get(ac, a) # NaN THEN Get(ac, a) + 1 ELSE NaN)

RECURSIVE CountActions(_, _)
CountActions(ac, ds) ==
    IF ds = <<>> THEN ac
    ELSE CountActions(IF InActionCounts(ac, Head(ds).action)
                      THEN Increment(ac, Head(ds).action)
                      ELSE ac,
                      Tail(ds))

\* updateComparisonChart: Object.keys / Object.values of agentPerformance
ComparisonChartData(ap) == [labels |-> Keys(ap), data |-> Vals(ap)]

\* faulty variant: the counters are drawn in the order buy, hold, sell
ActionsChartData_HoldSecond(ac) == <<Get(ac, "buy"), Get(ac, "hold"), Get(ac, "sell")>>

\* updateActionsChart
ActionsChartData(ac) == <<Get(ac, "buy"), Get(ac, "sell"), Get(ac, "hold")>>

\* -------------------------------------------------------- updateLLMPipeline
LLMFund == "LLM Fund"

\* faulty variant: a fund value already in the index is kept
StoreLLMFund_KeepFirst(ap, llm) ==
    IF Has(ap, LLMFund) THEN ap ELSE Put(ap, LLMFund, llm.portfolio.value)

StoreLLMFund(ap, llm) == Put(ap, LLMFund, llm.portfolio.value)

\* -------------------------------------------------------- trackTraderHistory
\* faulty variant: the record's value is the cash
LedgerRecord_CashAsValue(step, a, c, p, v) ==
    [step |-> step, action |-> a, cash |-> c, position |-> p, value |-> c]

LedgerRecord(step, a, c, p, v) ==
    [step |-> step, action |-> a, cash |-> c, position |-> p, value |-> v]

\* faulty variant: the ledger keeps the newest record only
PushRecord_Overwrite(th, name, rec) == Put(th, name, <<rec>>)

PushRecord(th, name, rec) ==
    Put(th, name, Append(IF Has(th, name) THEN Get(th, name) ELSE <<>>, rec))

RECURSIVE TrackDecisions(_, _, _)
TrackDecisions(th, ds, step) ==
    IF ds = <<>> THEN th
    ELSE TrackDecisions(
             PushRecord(th, Head(ds).name,
                        LedgerRecord(step, Head(ds).action, Head(ds).cash,
                                     Head(ds).pos, Head(ds).value)),
             Tail(ds), step)

\* traderHistory[agent.name] of a name every object literal inherits is a
\* function: it is truthy, so no array is stored under the name, and it has
\* no push, so the call throws a TypeError
TrackThrows(ds) == \E j \in 1..Len(ds) : ds[j].name \in ObjectPrototypeKeys

\* the decisions forEach gets through before it throws
Tracked(ds) ==
    IF TrackThrows(ds)
    THEN SubSeq(ds, 1, (CHOOSE j \in 1..Len(ds) :
                           /\ ds[j].name \in ObjectPrototypeKeys
                           /\ \A k \in 1..(j - 1) : ds[k].name \notin ObjectPrototypeKeys) - 1)
    ELSE ds

TrackTraderHistory(th, ds, step, llm) ==
    IF TrackThrows(ds) THEN TrackDecisions(th, Tracked(ds), step)
    ELSE PushRecord(TrackDecisions(th, ds, step), LLMFund,
                    LedgerRecord(step, llm.manager_decision.final_action,
                                 llm.portfolio.cash, llm.portfolio.pos, llm.portfolio.value))

\* ---------------------------------------------------- updatePerformanceChart
\* the names the Set holds once every decision of every step was added
NameSet(h) ==
    UNION {{h[i].decisions[j].name : j \in 1..Len(h[i].decisions)} : i \in 1..Len(h)}

NamesOf(ds) == {ds[j].name : j \in 1..Len(ds)}

FirstStep(h, n) ==
    CHOOSE i \in 1..Len(h) :
        /\ n \in NamesOf(h[i].decisions)
        /\ \A k \in 1..(i - 1) : n \notin NamesOf(h[k].decisions)

FirstIndex(ds, n) ==
    CHOOSE j \in 1..Len(ds) : ds[j].name = n /\ \A k \in 1..(j - 1) : ds[k].name # n

AddedBefore(h, m, n) ==
    \/ FirstStep(h, m) < FirstStep(h, n)
    \/ /\ FirstStep(h, m) = FirstStep(h, n)
       /\ FirstIndex(h[FirstStep(h, m)].decisions, m) < FirstIndex(h[FirstStep(h, n)].decisions, n)

\* a Set iterates in insertion order: each name at the place of its first add
TraderNames(h) ==
    LET S == NameSet(h)
    IN  [k \in 1..Cardinality(S) |->
            CHOOSE n \in S : Cardinality({m \in S : AddedBefore(h, m, n)}) = k - 1]

\* faulty variant: a trader absent from a step is drawn at 0
ValueIn_ZeroGap(ds, name) ==
    IF name \in NamesOf(ds) THEN ds[FirstIndex(ds, name)].value ELSE 0

\* step.decisions.find((d) => d.name === traderName), then its value or null
ValueIn(ds, name) ==
    IF name \in NamesOf(ds) THEN ds[FirstIndex(ds, name)].value ELSE Null

TraderSeries(h, name) ==
    [label |-> name, data |-> [i \in 1..Len(h) |-> ValueIn(h[i].decisions, name)]]

LLMSeries(h) ==
    [label |-> LLMFund, data |-> [i \in 1..Len(h) |-> h[i].llm.portfolio.value]]

PerformanceChartData(h) ==
    LET names == TraderNames(h)
    IN  [labels |-> [i \in 1..Len(h) |-> StepLabel(i)],
         datasets |-> Append([i \in 1..Len(names) |-> TraderSeries(h, names[i])],
                             LLMSeries(h))]

\* a history entry without decisions or without llm.portfolio makes the
\* re-derivation throw before the chart is assigned
PerformanceChartThrows(h) ==
    \E i \in 1..Len(h) : h[i].missing \in {"decisions", "llm", "portfolio"}

\* renderHistory reads step.decisions of every entry
RenderHistoryThrows(h) == \E i \in 1..Len(h) : h[i].missing = "decisions"

\* --------------------------------------------------------------- updateNews
\* faulty variant: the generic rules are tried before the "Very ..." rules
Sentiment_WeakFirst(news) ==
    IF Includes(news, <<"positive">>) \/ Includes(news, <<"upward">>)
    THEN "Positive"
    ELSE IF Includes(news, <<"negative">>) \/ Includes(news, <<"declin">>)
    THEN "Negative"
    ELSE IF Includes(news, <<"Very ", "positive">>) \/ Includes(news, <<"rally">>)
    THEN "Bullish"
    ELSE IF Includes(news, <<"Very ", "negative">>) \/ Includes(news, <<"crash">>)
    THEN "Bearish"
    ELSE "neutral"

\* the text updateNews gives the sentiment badge
Sentiment(news) ==
    IF Includes(news, <<"Very ", "positive">>) \/ Includes(news, <<"rally">>)
    THEN "Bullish"
    ELSE IF Includes(news, <<"positive">>) \/ Includes(news, <<"upward">>)
    THEN "Positive"
    ELSE IF Includes(news, <<"Very ", "negative">>) \/ Includes(news, <<"crash">>)
    THEN "Bearish"
    ELSE IF Includes(news, <<"negative">>) \/ Includes(news, <<"declin">>)
    THEN "Negative"
    ELSE "neutral"

\* ------------------------------------------------------------ renderHistory
\* a value of Number.parseInt
Finite(k) == [kind |-> "finite", n |-> k]

NotANumber == [kind |-> "NaN", n |-> 0]

Digits == {"0", "1", "2", "3", "4", "5", "6", "7", "8", "9"}

DigitValue(p) ==
    CASE p = "0" -> 0 [] p = "1" -> 1 [] p = "2" -> 2 [] p = "3" -> 3 [] p = "4" -> 4
      [] p = "5" -> 5 [] p = "6" -> 6 [] p = "7" -> 7 [] p = "8" -> 8 [] p = "9" -> 9

RECURSIVE DigitsValue(_, _)
DigitsValue(ds, acc) ==
    IF ds = <<>> THEN acc ELSE DigitsValue(Tail(ds), 10 * acc + DigitValue(Head(ds)))

\* faulty variant: the whole term must be digits
ParseInt_Strict(term) ==
    IF term # <<>> /\ \A j \in 1..Len(term) : term[j] \in Digits
    THEN Finite(DigitsValue(term, 0)) ELSE NotANumber

\* Number.parseInt(searchTerm): leading blanks are skipped, one sign is read,
\* then the longest run of digits; what follows the run is ignored, and no
\* digit at all gives NaN
ParseInt(term) ==
    LET lead == Cardinality({k \in 1..Len(term) : \A j \in 1..k : term[j] = " "})
        rest == SubSeq(term, lead + 1, Len(term))
        signed == rest # <<>> /\ rest[1] \in {"+", "-"}
        body == IF signed THEN Tail(rest) ELSE rest
        run == Cardinality({k \in 1..Len(body) : \A j \in 1..k : body[j] \in Digits})
        value == DigitsValue(SubSeq(body, 1, run), 0)
    IN  IF run = 0 THEN NotANumber
        ELSE Finite(IF signed /\ rest[1] = "-" THEN 0 - value ELSE value)

\* Number.prototype.toFixed(2), as the count of hundredths the text shows
Hundredths(h) == [kind |-> "finite", hundredths |-> h]

NonFinite(k) == [kind |-> k, hundredths |-> 0]

Abs(x) == IF x < 0 THEN 0 - x ELSE x

\* the integer nearest to a / b, a half rounded away from zero
RoundDiv(a, b) ==
    LET q == (2 * Abs(a) + Abs(b)) \div (2 * Abs(b))
    IN  IF (a < 0) = (b < 0) THEN q ELSE 0 - q

\* v.toFixed(2) of an integer v
Fixed2(v) == Hundredths(100 * v)

\* ((num / den) * 100).toFixed(2): a zero divisor gives NaN or an infinity
PercentFixed2(num, den) ==
    IF den = 0
    THEN IF num = 0 THEN NonFinite("NaN")
         ELSE IF num > 0 THEN NonFinite("Infinity") ELSE NonFinite("-Infinity")
    ELSE Hundredths(RoundDiv(10000 * num, den))

\* the two early returns of the forEach callback
StepShown(h, i, filter, term) ==
    /\ ~(filter = "step" /\ Finite(i) # ParseInt(term))
    /\ ~(filter = "news" /\ ~Includes(h[i].news, term))

\* step.news.includes and step.decisions.map throw on an absent field
StepThrows(h, i, filter, term) ==
    \/ filter = "news" /\ h[i].missing = "news"
    \/ h[i].missing = "decisions" /\ StepShown(h, i, filter, term)

\* the element appended for the entry at 0-based index i - 1
StepDiv(h, i) ==
    [label |-> StepLabel(i),
     price |-> Fixed2(h[i].price),
     news |-> IF h[i].missing = "news" THEN <<"undefined">> ELSE h[i].news,
     agents |-> [j \in 1..Len(h[i].decisions) |->
                    [action |-> h[i].decisions[j].action, name |-> h[i].decisions[j].name]]]

\* faulty variant: the step filter compares the 0-based index
RenderHistory_ZeroBased(h, filter, term) ==
    LET Keep(i) == /\ ~(filter = "step" /\ Finite(i - 1) # ParseInt(term))
                   /\ ~(filter = "news" /\ ~Includes(h[i].news, term))
        shown == SelectSeq([i \in 1..Len(h) |-> i], Keep)
    IN  [k \in 1..Len(shown) |-> StepDiv(h, shown[k])]

\* renderHistory(history, filter, searchTerm): the children of historyContainer
RenderHistory(h, filter, term) ==
    LET Keep(i) == /\ \A j \in 1..i : ~StepThrows(h, j, filter, term)
                   /\ StepShown(h, i, filter, term)
        shown == SelectSeq([i \in 1..Len(h) |-> i], Keep)
    IN  [k \in 1..Len(shown) |-> StepDiv(h, shown[k])]

\* ------------------------------------------------------ renderTraderHistory
\* faulty variant: the return is taken over the final value
TotalReturn_OverEnd(history) ==
    LET startValue == history[1].value
        endValue == history[Len(history)].value
    IN  PercentFixed2(endValue - startValue, endValue)

\* (((endValue - startValue) / startValue) * 100).toFixed(2)
TotalReturn(history) ==
    LET startValue == history[1].value
        endValue == history[Len(history)].value
    IN  PercentFixed2(endValue - startValue, startValue)

\* history.filter((h) => h.action !== "hold").length
TotalTrades(history) ==
    LET Trade(h) == h.action # "hold"
    IN  Len(SelectSeq(history, Trade))

\* one row of the table: the change against the record before it
ChangeRow(history, i) ==
    LET prevValue == IF i > 1 THEN history[i - 1].value ELSE history[i].value
        valueChange == history[i].value - prevValue
    IN  [step |-> history[i].step,
         action |-> history[i].action,
         value |-> Fixed2(history[i].value),
         valueChange |-> Fixed2(valueChange),
         changePercent |-> IF prevValue > 0 THEN PercentFixed2(valueChange, prevValue)
                           ELSE Hundredths(0)]

\* the summary and the table of one trader
TraderContent(history) ==
    [startValue |-> Fixed2(history[1].value),
     endValue |-> Fixed2(history[Len(history)].value),
     totalReturn |-> TotalReturn(history),
     totalTrades |-> TotalTrades(history),
     rows |-> [i \in 1..Len(history) |-> ChangeRow(history, i)]]

\* renderTraderHistory(): one content element per key of traderHistory
RenderTraderHistory(th) ==
    [i \in 1..Len(th) |-> [key |-> th[i].key, val |-> TraderContent(th[i].val)]]

\* ------------------------------------------- exportHistory, exportTraderData
\* A JavaScript value as JSON.stringify sees it: a number, a string (its
\* pieces), an array (its items) or an object (its own properties in
\* insertion order, the keys as pieces).
Num(n) == [t |-> "num", v |-> n]

Str(pieces) == [t |-> "str", v |-> pieces]

Arr(items) == [t |-> "arr", v |-> items]

Obj(props) == [t |-> "obj", v |-> props]

Prop(k, value) == [key |-> <<k>>, val |-> value]

\* one element of data.decisions
DecisionValue(d) ==
    Obj(<<Prop("name", Str(<<d.name>>)), Prop("action", Str(<<d.action>>)),
          Prop("cash", Num(d.cash)), Prop("pos", Num(d.pos)), Prop("value", Num(d.value))>>)

\* data.llm
LlmValue(d) ==
    LET decision == Prop("manager_decision",
                         Obj(<<Prop("final_action", Str(<<d.llm.manager_decision.final_action>>))>>))
        portfolio == Prop("portfolio",
                          Obj(<<Prop("cash", Num(d.llm.portfolio.cash)),
                                Prop("pos", Num(d.llm.portfolio.pos)),
                                Prop("value", Num(d.llm.portfolio.value))>>))
    IN  Obj(IF d.missing = "portfolio" THEN <<decision>> ELSE <<decision, portfolio>>)

\* one element of simulationHistory: the payload object as it was received
SnapshotValue(d) ==
    LET Present(p) == p.key # <<d.missing>>
    IN  Obj(SelectSeq(<<Prop("step", Num(d.step)), Prop("total_steps", Num(d.total_steps)),
                        Prop("price", Num(d.price)), Prop("news", Str(d.news)),
                        Prop("decisions", Arr([j \in 1..Len(d.decisions) |->
                                                  DecisionValue(d.decisions[j])])),
                        Prop("llm", LlmValue(d))>>, Present))

HistoryValue(h) == Arr([i \in 1..Len(h) |-> SnapshotValue(h[i])])

\* one record of a ledger
RecordValue(r) ==
    Obj(<<Prop("step", Num(r.step)), Prop("action", Str(<<r.action>>)),
          Prop("cash", Num(r.cash)), Prop("position", Num(r.position)),
          Prop("value", Num(r.value))>>)

LedgersValue(th) ==
    Obj([k \in 1..Len(th) |->
            Prop(th[k].key, Arr([i \in 1..Len(th[k].val) |-> RecordValue(th[k].val[i])]))])

\* The text JSON.stringify(value, null, 2) returns, as the sequence of its
\* pieces: brackets, braces, commas, colons, quotes, line breaks, indentation
\* units of two blanks, digits, and the pieces of the strings.
DigitPiece(n) ==
    CASE n = 0 -> "0" [] n = 1 -> "1" [] n = 2 -> "2" [] n = 3 -> "3" [] n = 4 -> "4"
      [] n = 5 -> "5" [] n = 6 -> "6" [] n = 7 -> "7" [] n = 8 -> "8" [] n = 9 -> "9"

RECURSIVE DigitsOf(_)
DigitsOf(n) ==
    IF n < 10 THEN <<DigitPiece(n)>> ELSE Append(DigitsOf(n \div 10), DigitPiece(n % 10))

\* the decimal text of an integer
NumText(n) == IF n < 0 THEN <<"-">> \o DigitsOf(0 - n) ELSE DigitsOf(n)

\* faulty variant: quotes and backslashes are written as they are
EscapePiece_None(piece) == piece

\* a quote or a backslash inside a string is written behind a backslash
EscapePiece(piece) ==
    CASE piece = "\"" -> "\\\""
      [] piece = "\\" -> "\\\\"
      [] OTHER -> piece

Quoted(pieces) ==
    <<"\"">> \o [j \in 1..Len(pieces) |-> EscapePiece(pieces[j])] \o <<"\"">>

\* a line break and the indentation of the given depth
Break(depth) == <<"\n">> \o [i \in 1..depth |-> "  "]

RECURSIVE Stringify(_, _), StringifyItems(_, _, _), StringifyProps(_, _, _)
Stringify(value, depth) ==
    CASE value.t = "num" -> NumText(value.v)
      [] value.t = "str" -> Quoted(value.v)
      [] value.t = "arr" ->
            IF value.v = <<>> THEN <<"[", "]">>
            ELSE <<"[">> \o StringifyItems(value.v, depth + 1, 1) \o Break(depth) \o <<"]">>
      [] value.t = "obj" ->
            IF value.v = <<>> THEN <<"{", "}">>
            ELSE <<"{">> \o StringifyProps(value.v, depth + 1, 1) \o Break(depth) \o <<"}">>

StringifyItems(items, depth, i) ==
    IF i > Len(items) THEN <<>>
    ELSE Break(depth) \o Stringify(items[i], depth)
         \o (IF i < Len(items) THEN <<",">> ELSE <<>>)
         \o StringifyItems(items, depth, i + 1)

StringifyProps(props, depth, i) ==
    IF i > Len(props) THEN <<>>
    ELSE Break(depth) \o Quoted(props[i].key) \o <<":", " ">> \o Stringify(props[i].val, depth)
         \o (IF i < Len(props) THEN <<",">> ELSE <<>>)
         \o StringifyProps(props, depth, i + 1)

\* ------------------------------------------------------------- dashboard.js
\* The page of src/static/js/dashboard.js as one record: its data storage
\* (isPaused, agentPerformance, actionCounts), startBtn.disabled and the data
\* of its three charts.  It keeps no history and no ledgers.
DashInit ==
    [isPaused |-> FALSE,
     startBtnDisabled |-> FALSE,
     agentPerformance |-> <<>>,
     actionCounts |-> <<[key |-> "buy", val |-> 0], [key |-> "sell", val |-> 0],
                        [key |-> "hold", val |-> 0]>>,
     priceLabels |-> <<>>,
     priceData |-> <<>>,
     comparisonView |-> [labels |-> <<>>, data |-> <<>>],
     actionsView |-> <<0, 0, 0>>]

\* updatePriceChart(price, step)
DashUpdatePriceChart(d, price, step) ==
    LET labels == Append(d.priceLabels, StepLabel(step))
        data == Append(d.priceData, price)
    IN  IF d.isPaused THEN d
        ELSE IF Len(labels) > WindowMax
        THEN [d EXCEPT !.priceLabels = Tail(labels), !.priceData = Tail(data)]
        ELSE [d EXCEPT !.priceLabels = labels, !.priceData = data]

\* updateComparisonChart()
DashUpdateComparisonChart(d) ==
    [d EXCEPT !.comparisonView =
        [labels |-> Keys(d.agentPerformance), data |-> Vals(d.agentPerformance)]]

\* updateActionsChart()
DashUpdateActionsChart(d) ==
    [d EXCEPT !.actionsView =
        <<Get(d.actionCounts, "buy"), Get(d.actionCounts, "sell"),
          Get(d.actionCounts, "hold")>>]

\* the body of decisions.forEach in updateAgents
DashStoreDecision(d, agent) ==
    [d EXCEPT !.agentPerformance = Put(@, agent.name, agent.value),
              !.actionCounts = IF InActionCounts(@, agent.action)
                               THEN Increment(@, agent.action) ELSE @]

RECURSIVE DashForEachDecision(_, _)
DashForEachDecision(d, decisions) ==
    IF decisions = <<>> THEN d
    ELSE DashForEachDecision(DashStoreDecision(d, Head(decisions)), Tail(decisions))

\* updateAgents(decisions)
DashUpdateAgents(d, decisions) ==
    DashUpdateActionsChart(DashUpdateComparisonChart(DashForEachDecision(d, decisions)))

\* updateLLMPipeline(llm)
DashUpdateLLMPipeline(d, llm) ==
    DashUpdateComparisonChart(
        [d EXCEPT !.agentPerformance = Put(@, "LLM Fund", llm.portfolio.value)])

\* socket.on("update", (data) => ...): the calls run in this order and a
\* missing field makes the call that reads it throw before it writes
DashUpdate(d, data) ==
    LET charted == DashUpdatePriceChart(d, data.price, data.step)
        agents == IF data.missing \in {"news", "decisions"} THEN charted
                  ELSE DashUpdateAgents(charted, data.decisions)
    IN  IF d.isPaused THEN d
        ELSE IF data.missing = "none" THEN DashUpdateLLMPipeline(agents, data.llm)
        ELSE agents

\* faulty variant: the start handler clears the price chart as well
DashStartClick_ClearsChart(d) ==
    [d EXCEPT !.startBtnDisabled = TRUE,
              !.agentPerformance = <<>>,
              !.actionCounts = DashInit.actionCounts,
              !.priceLabels = <<>>,
              !.priceData = <<>>]

\* startBtn click
DashStartClick(d) ==
    [d EXCEPT !.startBtnDisabled = TRUE,
              !.agentPerformance = <<>>,
              !.actionCounts = DashInit.actionCounts]

\* pauseBtn click
DashPauseClick(d) == [d EXCEPT !.isPaused = ~@]

\* socket.on("simulation_finished", (data) => ...)
DashFinished(d) == [d EXCEPT !.startBtnDisabled = FALSE]

\* ----------------------------------------------------------------- part_001
\* The page of src/unnamed/part_001: the data of its one chart and the
\* start_simulation commands it has emitted.
MiniInit == [labels |-> <<>>, data |-> <<>>, emitted |-> 0]

\* socket.on("update", data => ...): chart.data.labels.push(""),
\* chart.data.datasets[0].data.push(data.price)
MiniUpdate(m, data) ==
    [m EXCEPT !.labels = Append(@, ""), !.data = Append(@, data.price)]

\* startBtn.onclick
MiniStartClick(m) == [m EXCEPT !.emitted = @ + 1]

\* -------------------------------------------------------------------- state
VARIABLES
    isPaused,           \* let isPaused
    startBtnDisabled,   \* startBtn.disabled
    simulationHistory,  \* let simulationHistory
    traderHistory,      \* let traderHistory
    agentPerformance,   \* let agentPerformance
    actionCounts,       \* let actionCounts
    priceLabels,        \* priceChart.data.labels
    priceData,          \* priceChart.data.datasets[0].data
    comparisonView,     \* comparisonChart.data
    actionsView,        \* actionsChart.data.datasets[0].data
    perfView,           \* performanceChart.data
    historyFilter,      \* document.getElementById("historyFilter").value
    historySearch,      \* document.getElementById("historySearch").value
    emitted,            \* start_simulation commands sent on the socket
    sent,               \* update events the socket has delivered
    delivered,          \* the payloads of the update events handled while not paused
    runStart,           \* Len(delivered) when the start button was last clicked
    ev,                 \* the event handled last, whether its handler threw, and
                        \* what the handler wrote to the page
    dashboard,          \* the page of src/static/js/dashboard.js: its data
                        \* storage, its start button and its chart data
    minimal             \* the page of src/unnamed/part_001: its chart data and
                        \* the start_simulation commands it has sent

store == <<simulationHistory, traderHistory, agentPerformance, actionCounts>>

window == <<priceLabels, priceData>>

views == <<comparisonView, actionsView, perfView>>

controls == <<historyFilter, historySearch>>

\* the pages of the two other variants, fed by a socket of their own
otherPages == <<dashboard, minimal>>

vars == <<isPaused, startBtnDisabled, simulationHistory, traderHistory,
          agentPerformance, actionCounts, priceLabels, priceData,
          comparisonView, actionsView, perfView, historyFilter, historySearch,
          emitted, sent, delivered, runStart, ev, dashboard, minimal>>

\* what one handler wrote: the sentiment badge, the children of
\* historyContainer, the children of traderHistoryContent, the downloaded text
NoOutput == [sentiment |-> "", steps |-> <<>>, traders |-> <<>>, file |-> <<>>]

Event(k, p, t) == [kind |-> k, payload |-> p, threw |-> t, out |-> NoOutput]

Wrote(k, p, t, o) == [kind |-> k, payload |-> p, threw |-> t, out |-> o]

\* actionCounts = { buy: 0, sell: 0, hold: 0 }
ZeroCounts ==
    <<[key |-> "buy", val |-> 0], [key |-> "sell", val |-> 0], [key |-> "hold", val |-> 0]>>

\* the page after DOMContentLoaded: initCharts has created the four charts
Init ==
    /\ isPaused = FALSE
    /\ startBtnDisabled = FALSE
    /\ simulationHistory = <<>>
    /\ traderHistory = <<>>
    /\ agentPerformance = <<>>
    /\ actionCounts = ZeroCounts
    /\ priceLabels = <<>>
    /\ priceData = <<>>
    /\ comparisonView = [labels |-> <<>>, data |-> <<>>]
    /\ actionsView = <<0, 0, 0>>
    /\ perfView = [labels |-> <<>>, datasets |-> <<>>]
    /\ historyFilter = "all"
    /\ historySearch = <<>>
    /\ emitted = 0
    /\ sent = 0
    /\ delivered = <<>>
    /\ runStart = 0
    /\ ev = Event("load", NoPayload, FALSE)
    /\ dashboard = DashInit
    /\ minimal = MiniInit

\* ----------------------------------------------------------------- handlers
\* faulty variant: the handler also returns while the start button is enabled
Gated_WhenIdle == isPaused \/ ~startBtnDisabled

\* faulty variant: the handler ignores the pause flag
Gated_Never == FALSE

\* socket.on("update"): if (isPaused) return
Gated == isPaused

\* faulty variant: a payload equal to the newest entry is not appended again
PushHistory_Dedup(h, data) ==
    IF h # <<>> /\ h[Len(h)] = data THEN h ELSE Append(h, data)

\* simulationHistory.push(data)
PushHistory(h, data) == Append(h, data)

\* how far the update handler gets before a missing field makes it throw:
\* 1 updateNews, 2 updateAgents (decisions.forEach), 3 updateLLMPipeline,
\* 4 nothing thrown by the calls that write the store
Reached(data) ==
    CASE data.missing = "news" -> 1
      [] data.missing = "decisions" -> 2
      [] data.missing \in {"llm", "portfolio"} -> 3
      [] OTHER -> 4

\* socket.on("update", (data) => ...)
Update(data) ==
    LET h1 == PushHistory(simulationHistory, data)
        ap1 == StorePerformance(agentPerformance, data.decisions)
        ac1 == CountActions(actionCounts, data.decisions)
        ap2 == StoreLLMFund(ap1, data.llm)
        th1 == TrackTraderHistory(traderHistory, data.decisions, data.step, data.llm)
        at == Reached(data)
        trackThrows == TrackThrows(data.decisions)
        perfThrows == PerformanceChartThrows(h1)
    IN  /\ sent' = sent + 1
        /\ delivered' = IF isPaused THEN delivered ELSE Append(delivered, data)
        /\ UNCHANGED <<isPaused, startBtnDisabled, controls, emitted, runStart>>
        /\ IF Gated
           THEN /\ ev' = Event("update", NoPayload, FALSE)
                /\ UNCHANGED <<store, window, views>>
           ELSE /\ simulationHistory' = h1
                \* updatePriceChart(data.price, data.step), which returns early when paused
                /\ priceLabels' = IF isPaused THEN priceLabels
                                  ELSE PriceLabelsAfter(priceLabels, data.step)
                /\ priceData' = IF isPaused THEN priceData
                                ELSE PriceDataAfter(priceLabels, priceData, data.price, data.step)
                \* updateAgents(data.decisions); updateLLMPipeline(data.llm)
                /\ agentPerformance' = IF at = 4 THEN ap2
                                       ELSE IF at = 3 THEN ap1 ELSE agentPerformance
                /\ actionCounts' = IF at >= 3 THEN ac1 ELSE actionCounts
                /\ comparisonView' = IF at = 4 THEN ComparisonChartData(ap2)
                                     ELSE IF at = 3 THEN ComparisonChartData(ap1)
                                     ELSE comparisonView
                /\ actionsView' = IF at >= 3 THEN ActionsChartData(ac1) ELSE actionsView
                \* trackTraderHistory(...); updatePerformanceChart()
                /\ traderHistory' = IF at = 4 THEN th1 ELSE traderHistory
                /\ perfView' = IF at = 4 /\ ~trackThrows /\ ~perfThrows
                               THEN PerformanceChartData(h1) ELSE perfView
                \* updateNews(data.news, ...) sets the badge unless data.news is absent
                /\ ev' = Wrote("update", NoPayload, at < 4 \/ trackThrows \/ perfThrows,
                               [NoOutput EXCEPT !.sentiment =
                                   IF at >= 2 THEN Sentiment(data.news) ELSE ""])

\* faulty variant: the start handler leaves the button enabled
StartClick_StaysEnabled ==
    /\ ~startBtnDisabled
    /\ startBtnDisabled' = FALSE
    /\ agentPerformance' = <<>>
    /\ actionCounts' = ZeroCounts
    /\ simulationHistory' = <<>>
    /\ traderHistory' = <<>>
    /\ emitted' = emitted + 1
    /\ runStart' = Len(delivered)
    /\ ev' = Event("start", NoPayload, FALSE)
    /\ UNCHANGED <<isPaused, window, views, controls, sent, delivered>>

\* faulty variant: the start handler clears the pause flag
StartClick_Unpauses ==
    /\ ~startBtnDisabled
    /\ startBtnDisabled' = TRUE
    /\ isPaused' = FALSE
    /\ agentPerformance' = <<>>
    /\ actionCounts' = ZeroCounts
    /\ simulationHistory' = <<>>
    /\ traderHistory' = <<>>
    /\ emitted' = emitted + 1
    /\ runStart' = Len(delivered)
    /\ ev' = Event("start", NoPayload, FALSE)
    /\ UNCHANGED <<window, views, controls, sent, delivered>>

\* faulty variant: the start handler forgets the ledgers
StartClick_KeepsLedgers ==
    /\ ~startBtnDisabled
    /\ startBtnDisabled' = TRUE
    /\ agentPerformance' = <<>>
    /\ actionCounts' = ZeroCounts
    /\ simulationHistory' = <<>>
    /\ emitted' = emitted + 1
    /\ runStart' = Len(delivered)
    /\ ev' = Event("start", NoPayload, FALSE)
    /\ UNCHANGED <<isPaused, traderHistory, window, views, controls, sent, delivered>>

\* startBtn click: a disabled button dispatches no click
StartClick ==
    /\ ~startBtnDisabled
    /\ startBtnDisabled' = TRUE
    /\ agentPerformance' = <<>>
    /\ actionCounts' = ZeroCounts
    /\ simulationHistory' = <<>>
    /\ traderHistory' = <<>>
    /\ emitted' = emitted + 1
    /\ runStart' = Len(delivered)
    /\ ev' = Event("start", NoPayload, FALSE)
    /\ UNCHANGED <<isPaused, window, views, controls, sent, delivered>>

\* pauseBtn click
PauseClick ==
    /\ isPaused' = ~isPaused
    /\ ev' = Event("pause", NoPayload, FALSE)
    /\ UNCHANGED <<startBtnDisabled, store, window, views, controls, emitted, sent,
                   delivered, runStart>>

\* faulty variant: an empty history payload is taken for an absent one
HistoryOr_NonEmpty(payload, h) ==
    IF payload.has /\ payload.history # <<>> THEN payload.history ELSE h

\* data.history || simulationHistory: an array, empty or not, is truthy
HistoryOr(payload, h) == IF payload.has THEN payload.history ELSE h

\* socket.on("simulation_finished", (data) => ...)
Finished(payload) ==
    /\ startBtnDisabled' = FALSE
    /\ simulationHistory' = HistoryOr(payload, simulationHistory)
    \* renderHistory(simulationHistory); renderTraderHistory()
    /\ ev' = Wrote("finished", payload, RenderHistoryThrows(simulationHistory'),
                   [NoOutput EXCEPT
                       !.steps = RenderHistory(simulationHistory', "all", <<>>),
                       !.traders = IF RenderHistoryThrows(simulationHistory') THEN <<>>
                                   ELSE RenderTraderHistory(traderHistory)])
    /\ UNCHANGED <<isPaused, traderHistory, agentPerformance, actionCounts, window,
                   views, controls, emitted, sent, delivered, runStart>>

\* click on the tab whose data-tab is "performance"
PerformanceTab ==
    /\ IF simulationHistory = <<>>
       THEN /\ UNCHANGED perfView
            /\ ev' = Event("tab", NoPayload, FALSE)
       ELSE /\ perfView' = IF PerformanceChartThrows(simulationHistory) THEN perfView
                           ELSE PerformanceChartData(simulationHistory)
            /\ ev' = Event("tab", NoPayload, PerformanceChartThrows(simulationHistory))
    /\ UNCHANGED <<isPaused, startBtnDisabled, store, window, comparisonView,
                   actionsView, controls, emitted, sent, delivered, runStart>>

\* historyFilter change: the select holds the chosen mode when the listener runs
HistoryFilterChange(filter) ==
    /\ historyFilter' = filter
    /\ ev' = Wrote("filter", NoPayload,
                   \E i \in 1..Len(simulationHistory) :
                       StepThrows(simulationHistory, i, filter, historySearch),
                   [NoOutput EXCEPT
                       !.steps = RenderHistory(simulationHistory, filter, historySearch)])
    /\ UNCHANGED <<isPaused, startBtnDisabled, store, window, views, historySearch,
                   emitted, sent, delivered, runStart>>

\* historySearch input: the field holds the typed text when the listener runs
HistorySearchInput(term) ==
    /\ historySearch' = term
    /\ ev' = Wrote("search", NoPayload,
                   \E i \in 1..Len(simulationHistory) :
                       StepThrows(simulationHistory, i, historyFilter, term),
                   [NoOutput EXCEPT
                       !.steps = RenderHistory(simulationHistory, historyFilter, term)])
    /\ UNCHANGED <<isPaused, startBtnDisabled, store, window, views, historyFilter,
                   emitted, sent, delivered, runStart>>

\* exportHistoryBtn click: the text of the downloaded file
ExportHistory ==
    /\ ev' = Wrote("exportHistory", NoPayload, FALSE,
                   [NoOutput EXCEPT !.file = Stringify(HistoryValue(simulationHistory), 0)])
    /\ UNCHANGED <<isPaused, startBtnDisabled, store, window, views, controls, emitted,
                   sent, delivered, runStart>>

\* exportTradersBtn click: the text of the downloaded file
ExportTraderData ==
    /\ ev' = Wrote("exportTraders", NoPayload, FALSE,
                   [NoOutput EXCEPT !.file = Stringify(LedgersValue(traderHistory), 0)])
    /\ UNCHANGED <<isPaused, startBtnDisabled, store, window, views, controls, emitted,
                   sent, delivered, runStart>>

\* ----------------------------------------------------------- specifications
OnUpdate == \E data \in Snapshots : sent < MaxUpdates /\ Update(data) /\ UNCHANGED otherPages

OnStart == emitted < MaxStarts /\ StartClick /\ UNCHANGED otherPages

OnPause == PauseClick /\ UNCHANGED otherPages

OnFinished == \E payload \in Payloads : Finished(payload) /\ UNCHANGED otherPages

OnPerformanceTab == PerformanceTab /\ UNCHANGED otherPages

Next == OnUpdate \/ OnStart \/ OnPause \/ OnFinished \/ OnPerformanceTab

\* update payloads are StepSnapshots, whatever their content
Spec == Init /\ [][Next]_vars

\* update payloads that lack a required field are delivered as well
OnMalformedUpdate == \E data \in Malformed :
    sent < MaxUpdates /\ Update(data) /\ UNCHANGED otherPages

NextDecode == Next \/ OnMalformedUpdate

SpecDecode == Init /\ [][NextDecode]_vars

\* The server's stream of one long run: the k-th update event carries step k.
StreamSnap(k) ==
    Snap(k, 100 + k, <<"steady">>, <<Dec("Random", "hold", 0, 1, 100 + k)>>,
         Llm("hold", 0, 1, 200 + k))

Active == sent < ClickEarly \/ sent >= MaxStream - ClickLate

StreamUpdate == sent < MaxStream /\ Update(StreamSnap(sent + 1)) /\ UNCHANGED otherPages

StreamStart == Active /\ emitted < MaxStarts /\ StartClick /\ UNCHANGED otherPages

StreamPause == Active /\ PauseClick /\ UNCHANGED otherPages

StreamFinished == Active /\ startBtnDisabled /\ Finished(NoPayload) /\ UNCHANGED otherPages

NextWindow == StreamUpdate \/ StreamStart \/ StreamPause \/ StreamFinished

SpecWindow == Init /\ [][NextWindow]_vars

\* ------------------------------------------------------- reference notions
\* the payloads handled while the pause flag was clear since the last start
\* click (since the page was loaded, before the first click)
RunDelivered == SubSeq(delivered, runStart + 1, Len(delivered))

WellFormed(d) == d.missing = "none"

\* the StepSnapshots among them
Accepted == SelectSeq(RunDelivered, WellFormed)

Recognized == {"buy", "sell", "hold"}

UpTo(n) == IF n > WindowMax THEN WindowMax ELSE n

\* the labels and prices of the UpTo(Len(seq)) newest payloads of seq
NewestLabels(seq) ==
    [i \in 1..UpTo(Len(seq)) |-> StepLabel(seq[Len(seq) - UpTo(Len(seq)) + i].step)]

NewestPrices(seq) ==
    [i \in 1..UpTo(Len(seq)) |-> seq[Len(seq) - UpTo(Len(seq)) + i].price]

StoreEmpty ==
    /\ simulationHistory = <<>>
    /\ traderHistory = <<>>
    /\ agentPerformance = <<>>
    /\ \A a \in Recognized : Get(actionCounts, a) = 0

\* ------------------------------------------------------------------- claims
\* C1: an update event handled while the pause flag is set changes neither
\* the history, the price window, the tally, the ledgers nor the index.
C1_PausedUpdateIsNoOp ==
    [][(ev'.kind = "update" /\ sent' = sent + 1 /\ isPaused)
           => UNCHANGED <<store, window>>]_vars

C1_Witness ==
    /\ ev.kind = "update"
    /\ isPaused
    /\ sent > Len(delivered)
    /\ simulationHistory # <<>>
    /\ traderHistory # <<>>

\* C2: an update event whose payload lacks a required field is rejected with
\* an error and leaves history, window, tally, index and ledgers as they were.
C2_MalformedLeavesStateUntouched ==
    [][(ev'.kind = "update" /\ Len(delivered') > Len(delivered)
            /\ ~WellFormed(delivered'[Len(delivered')]))
           => (ev'.threw /\ UNCHANGED <<store, window>>)]_vars

\* C3: when the start handler completes the history, the ledgers and the
\* index are empty and the three counters are 0, and the handler has emitted
\* the start_simulation command.
C3_StartClearsStore ==
    [][ev'.kind = "start" => (StoreEmpty' /\ emitted' = emitted + 1)]_vars

C3_Witness ==
    /\ ev.kind = "start"
    /\ emitted = 2
    /\ runStart > 0
    /\ StoreEmpty

\* C4: the price window holds only points of payloads accepted since the last
\* start click, so it is empty right after a start click.
C4_WindowOfCurrentRun ==
    /\ priceLabels = NewestLabels(RunDelivered)
    /\ priceData = NewestPrices(RunDelivered)
    /\ (ev.kind = "start" => priceLabels = <<>> /\ priceData = <<>>)

\* C5: after N payloads handled while not paused since the page was loaded,
\* the window holds the ("Step {step}", price) pairs of the min(N, 30) newest
\* of them in arrival order, labels and prices aligned, never more than 30.
C5_WindowIsNewestThirty ==
    /\ Len(priceLabels) = UpTo(Len(delivered))
    /\ Len(priceData) = Len(priceLabels)
    /\ Len(priceLabels) <= WindowMax
    /\ priceLabels = NewestLabels(delivered)
    /\ priceData = NewestPrices(delivered)

C5_Witness ==
    /\ Len(delivered) > WindowMax
    /\ sent > Len(delivered)
    /\ Len(priceLabels) = WindowMax
    /\ priceLabels[1] # "Step 1"

\* C6: between a start click and simulation_finished the history is exactly
\* the sequence of payloads delivered while not paused since that click, in
\* delivery order, duplicates kept; a payload delivered while paused is never
\* appended, also not after the pause is lifted.
C6_HistoryIsDeliveredUnpaused ==
    startBtnDisabled => simulationHistory = RunDelivered

C6_Witness ==
    /\ startBtnDisabled
    /\ ~isPaused
    /\ ev.kind = "update"
    /\ runStart = 0
    /\ sent = 2
    /\ Len(simulationHistory) = 1

\* the decisions of seq, as (payload index, decision index)
Slots(seq) ==
    UNION {{<<i, j>> : j \in 1..Len(seq[i].decisions)} : i \in 1..Len(seq)}

DecisionAt(seq, sl) == seq[sl[1]].decisions[sl[2]]

LedgerLen(n) == IF Has(traderHistory, n) THEN Len(Get(traderHistory, n)) ELSE 0

TraderUniverse == NameSet(Accepted) \cup KeySet(traderHistory) \cup {LLMFund}

\* in how many payloads of seq the name appears; the fund appears in each
SnapshotsWith(seq, n) ==
    Cardinality({i \in 1..Len(seq) : n = LLMFund \/ n \in NamesOf(seq[i].decisions)})

\* how many ledger records the payloads of seq carry for the name
RecordsFor(seq, n) ==
    Cardinality({sl \in Slots(seq) : DecisionAt(seq, sl).name = n})
        + (IF n = LLMFund THEN Len(seq) ELSE 0)

ActionCount(seq, a) ==
    Cardinality({sl \in Slots(seq) : DecisionAt(seq, sl).action = a})

\* C8: each of the buy, sell and hold counters is the number of decisions
\* with that action in the snapshots accepted while not paused since the last
\* start click, and their sum is the number of decisions with a recognized
\* action; the decisions of a snapshot dropped while paused are not counted.
C8_TallyCountsAcceptedDecisions ==
    /\ \A a \in Recognized : Get(actionCounts, a) = ActionCount(Accepted, a)
    /\ Get(actionCounts, "buy") + Get(actionCounts, "sell") + Get(actionCounts, "hold")
         = Cardinality({sl \in Slots(Accepted) : DecisionAt(Accepted, sl).action \in Recognized})

C8_Witness ==
    /\ sent - runStart > Len(RunDelivered)
    /\ sent = 2
    /\ emitted = 1
    /\ runStart = 0
    /\ Get(actionCounts, "buy") = 1
    /\ Get(actionCounts, "hold") = 1

HasUnrecognized(d) ==
    \E j \in 1..Len(d.decisions) : d.decisions[j].action \notin Recognized

\* C9: accepting a snapshot that carries a decision whose action is not buy,
\* sell or hold counts only its recognized decisions, creates no other
\* counter, appends one ledger record per decision and raises no error.
C9_UnrecognizedActionSkipped ==
    [][(ev'.kind = "update" /\ Len(delivered') > Len(delivered)
            /\ HasUnrecognized(delivered'[Len(delivered')]))
           => LET d == delivered'[Len(delivered')]
              IN  /\ KeySet(actionCounts') = Recognized
                  /\ \A a \in Recognized :
                         Get(actionCounts', a) = Get(actionCounts, a) + ActionCount(<<d>>, a)
                  /\ \A n \in NamesOf(d.decisions) \cup {LLMFund} :
                         /\ Has(traderHistory', n)
                         /\ Len(Get(traderHistory', n)) = LedgerLen(n) + RecordsFor(<<d>>, n)
                  /\ ~ev'.threw]_vars

LastStepWith(seq, n) ==
    CHOOSE i \in 1..Len(seq) :
        /\ n \in NamesOf(seq[i].decisions)
        /\ \A k \in (i + 1)..Len(seq) : n \notin NamesOf(seq[k].decisions)

LastIndex(ds, n) ==
    CHOOSE j \in 1..Len(ds) : ds[j].name = n /\ \A k \in (j + 1)..Len(ds) : ds[k].name # n

\* the value the newest payload of seq that names n gives it (its last
\* decision of that name); for the fund, the newest portfolio value
NewestValue(seq, n) ==
    IF n = LLMFund THEN seq[Len(seq)].llm.portfolio.value
    ELSE LET ds == seq[LastStepWith(seq, n)].decisions IN ds[LastIndex(ds, n)].value

\* C10: the index maps exactly the names seen in the accepted snapshots of
\* the run, each to its value in the newest accepted snapshot that names it,
\* and "LLM Fund" to the llm.portfolio.value of the newest accepted snapshot.
C10_IndexIsLastWrite ==
    /\ KeySet(agentPerformance)
         = (IF Accepted = <<>> THEN {} ELSE NameSet(Accepted) \cup {LLMFund})
    /\ \A n \in KeySet(agentPerformance) :
           Get(agentPerformance, n) = NewestValue(Accepted, n)

C10_Witness ==
    /\ Accepted = <<SnapA, SnapB>>
    /\ Get(agentPerformance, "Holder") = 0
    /\ Get(agentPerformance, "Random") = 90
    /\ Get(agentPerformance, LLMFund) = 141

\* C11: handling simulation_finished with a history payload makes
\* simulationHistory that payload (an empty one as well), handling it without
\* one leaves simulationHistory as it is; the ledgers, the performance index,
\* the tally, the price window and the pause flag are unchanged either way.
C11_FinishedReplacesHistoryOnly ==
    [][ev'.kind = "finished" =>
        /\ simulationHistory' = (IF ev'.payload.has THEN ev'.payload.history
                                 ELSE simulationHistory)
        /\ UNCHANGED <<traderHistory, agentPerformance, actionCounts, window, isPaused>>]_vars

\* an empty authoritative history has replaced the live one; ledgers remain
C11_Witness ==
    /\ ev.kind = "finished"
    /\ ev.payload.has
    /\ ev.payload.history = <<>>
    /\ simulationHistory = <<>>
    /\ traderHistory # <<>>
    /\ priceLabels # <<>>

NonDecreasing(steps) == \A i \in 1..(Len(steps) - 1) : steps[i] <= steps[i + 1]

\* C12: during a run, whatever the order in which the snapshots are delivered,
\* neither simulationHistory nor any ledger of traderHistory holds a record
\* whose step is smaller than the step of the record before it.
C12_StepsNonDecreasing ==
    startBtnDisabled =>
        /\ NonDecreasing([i \in 1..Len(simulationHistory) |-> simulationHistory[i].step])
        /\ \A k \in 1..Len(traderHistory) :
              NonDecreasing([i \in 1..Len(traderHistory[k].val) |->
                                traderHistory[k].val[i].step])

\* ------------------------------------------------------------- SpecLedger
\* One run of one trader whose portfolio value and action vary freely; the
\* run is closed by simulation_finished, which renders the per-trader
\* summaries, and updates may still arrive after it.
LedgerValues == {0, 90, 100, 150, 0 - 50}

LedgerActions == {"buy", "hold", "short"}

LedgerSnap(k, a, v) ==
    Snap(k, 100, <<"steady">>, <<Dec("Trend", a, 0, 1, v)>>, Llm("hold", 10, 1, 100))

LedgerUpdate ==
    \E a \in LedgerActions, v \in LedgerValues :
        sent < MaxLedger /\ emitted > 0 /\ Update(LedgerSnap(sent + 1, a, v))
            /\ UNCHANGED otherPages

LedgerStart == emitted = 0 /\ StartClick /\ UNCHANGED otherPages

LedgerFinished == emitted > 0 /\ Finished(NoPayload) /\ UNCHANGED otherPages

NextLedger == LedgerUpdate \/ LedgerStart \/ LedgerFinished

SpecLedger == Init /\ [][NextLedger]_vars

\* the values of one ledger, oldest first
ValuesOf(ledger) == [i \in 1..Len(ledger) |-> ledger[i].value]

\* text is the two-decimal text of 100 * num / den, den not 0
IsPercentOf(text, num, den) ==
    /\ text.kind = "finite"
    /\ 2 * Abs(text.hundredths * den - 10000 * num) <= Abs(den)

\* C13: for every ledger whose first record has value 0 the summary shows a
\* total return of 0, whatever the later values are: no NaN, no infinity.
C13_ZeroStartGivesZeroReturn ==
    ev.kind = "finished" =>
        \A k \in 1..Len(traderHistory) :
            ValuesOf(traderHistory[k].val)[1] = 0 =>
                ev.out.traders[k].val.totalReturn = Hundredths(0)

\* C14: for every ledger whose first value is not 0 the summary shows the
\* first value as starting value, the last value as final value, the total
\* return (last - first) / first * 100 to two decimals (100, 150, 90 gives
\* -10.00) and as trades the number of records whose action is not hold.
C14_SummaryOfLedger ==
    ev.kind = "finished" =>
        \A k \in 1..Len(traderHistory) :
            LET values == ValuesOf(traderHistory[k].val)
                first == values[1]
                last == values[Len(values)]
                summary == ev.out.traders[k].val
            IN  first # 0 =>
                  /\ ev.out.traders[k].key = traderHistory[k].key
                  /\ summary.startValue = Hundredths(100 * first)
                  /\ summary.endValue = Hundredths(100 * last)
                  /\ IsPercentOf(summary.totalReturn, last - first, first)
                  /\ values = <<100, 150, 90>> => summary.totalReturn = Hundredths(0 - 1000)
                  /\ summary.totalTrades =
                        Cardinality({i \in 1..Len(values) :
                                        traderHistory[k].val[i].action # "hold"})

\* the ledger 100, 150, 90 with an unrecognized action has been summarised
C14_Witness ==
    /\ ev.kind = "finished"
    /\ \E k \in 1..Len(traderHistory) :
          /\ ValuesOf(traderHistory[k].val) = <<100, 150, 90>>
          /\ traderHistory[k].val[2].action = "short"
          /\ traderHistory[k].val[3].action = "hold"
          /\ ev.out.traders[k].val.totalTrades = 2

\* C15: in every row of a ledger's table the change is the value minus the
\* value of the row before (0 in the first row), and the percentage is
\* change / previous value * 100 whenever the previous value is not 0, also
\* when it is negative, and 0 when the previous value is 0 and in the first row.
C15_RowChanges ==
    ev.kind = "finished" =>
        \A k \in 1..Len(traderHistory) :
            \A i \in 1..Len(traderHistory[k].val) :
                LET values == ValuesOf(traderHistory[k].val)
                    row == ev.out.traders[k].val.rows[i]
                    delta == IF i = 1 THEN 0 ELSE values[i] - values[i - 1]
                IN  /\ row.valueChange = Hundredths(100 * delta)
                    /\ IF i = 1 \/ values[i - 1] = 0
                       THEN row.changePercent = Hundredths(0)
                       ELSE IsPercentOf(row.changePercent, delta, values[i - 1])

\* the axis of a performance view over a history of n entries
StepAxis(n) == [i \in 1..n |-> StepLabel(i)]

\* the values the decisions of one snapshot give a name
ValuesFor(snapshot, name) ==
    {snapshot.decisions[j].value : j \in {j \in 1..Len(snapshot.decisions) :
                                            snapshot.decisions[j].name = name}}

BrowseNews(k) ==
    CASE k = 1 -> <<"Market ", "rally">>
      [] k = 2 -> <<"crash">>
      [] k = 3 -> <<"Crash", " ahead">>
      [] k = 4 -> <<"flash ", "crash">>
      [] k = 5 -> <<"a", " ", "crash">>
      [] OTHER -> <<"steady">>

BrowseSnap(k) ==
    Snap(k, 100 + k, BrowseNews(k), <<Dec("Random", "hold", 0, 1, 100 + k)>>,
         Llm("hold", 0, 1, 200 + k))

FilterModes == {"all", "step", "news"}

Pieces == {"3", "1", "0", " ", "-", "+", "a", "crash", "Crash"}

BrowseUpdate == sent < MaxBrowse /\ Update(BrowseSnap(sent + 1)) /\ UNCHANGED otherPages

BrowseFilter == \E filter \in FilterModes : HistoryFilterChange(filter) /\ UNCHANGED otherPages

\* the input event of typing one more piece into the search field
BrowseType ==
    \E piece \in Pieces :
        Len(historySearch) < MaxTerm /\ HistorySearchInput(Append(historySearch, piece))
            /\ UNCHANGED otherPages

\* the input event of deleting the last piece
BrowseErase ==
    /\ historySearch # <<>>
    /\ HistorySearchInput(SubSeq(historySearch, 1, Len(historySearch) - 1))
    /\ UNCHANGED otherPages

NextBrowse == BrowseUpdate \/ BrowseFilter \/ BrowseType \/ BrowseErase

SpecBrowse == Init /\ [][NextBrowse]_vars

\* the term reads as the integer k: blanks, at most one sign, then a run of
\* digits that ends at the end of the term or before a piece that is no digit
ParsesAs(term, k) ==
    \E lead \in 0..Len(term), sign \in {0, 1}, run \in 1..Len(term) :
        /\ lead + sign + run <= Len(term)
        /\ \A j \in 1..lead : term[j] = " "
        /\ sign = 1 => term[lead + 1] \in {"+", "-"}
        /\ \A j \in (lead + sign + 1)..(lead + sign + run) : term[j] \in Digits
        /\ lead + sign + run < Len(term) => term[lead + sign + run + 1] \notin Digits
        /\ LET magnitude == DigitsValue(SubSeq(term, lead + sign + 1, lead + sign + run), 0)
           IN  k = IF sign = 1 /\ term[lead + 1] = "-" THEN 0 - magnitude ELSE magnitude

\* the history view has just been redrawn by one of the two listeners
Redrawn == ev.kind \in {"filter", "search"}

\* C17: in mode `step` the view shows exactly the record at 1-based position k
\* when the search term reads as an integer k between 1 and the length of the
\* history, and nothing otherwise; "3" on a history of five steps shows the
\* third record, a term without a number or an empty term shows nothing, and
\* no error is raised.
C17_StepFilterShowsRecordK ==
    (Redrawn /\ historyFilter = "step") =>
        LET h == simulationHistory
            ks == {k \in 1..Len(h) : ParsesAs(historySearch, k)}
        IN  /\ ~ev.threw
            /\ IF ks = {} THEN ev.out.steps = <<>>
               ELSE \E k \in ks : ev.out.steps = <<StepDiv(h, k)>>
            /\ (historySearch = <<"3">> /\ Len(h) = 5) => ev.out.steps = <<StepDiv(h, 3)>>
            /\ (\A j \in 1..Len(historySearch) : historySearch[j] \notin Digits)
                  => ev.out.steps = <<>>

\* "3" has been searched in mode `step` on a history of five steps
C17_Witness ==
    /\ Redrawn
    /\ historyFilter = "step"
    /\ historySearch = <<"3">>
    /\ Len(simulationHistory) = 5
    /\ Len(ev.out.steps) = 1
    /\ ev.out.steps[1].label = "Step 3"

\* the positions of the history whose news contains the term as it is written
Matching(h, term) ==
    {i \in 1..Len(h) :
        \E a \in 0..Len(h[i].news), b \in 0..Len(h[i].news) :
            a <= b /\ SubSeq(h[i].news, a + 1, b) = term}

\* the members of a set of positions in increasing order
Ascending(S) ==
    [k \in 1..Cardinality(S) |-> CHOOSE i \in S : Cardinality({m \in S : m < i}) = k - 1]

\* C18: in mode `news` the view shows exactly the steps whose news contains
\* the search term, letter case included, in the order of the history and each
\* labelled with its 1-based position in the full history; in mode `all` it
\* shows every step; redrawing the view never changes simulationHistory.
C18_NewsFilterShowsMatches ==
    [][ev'.kind \in {"filter", "search"} =>
        LET h == simulationHistory'
            shown == IF historyFilter' = "news" THEN Ascending(Matching(h, historySearch'))
                     ELSE Ascending(1..Len(h))
        IN  /\ UNCHANGED simulationHistory
            /\ historyFilter' \in {"news", "all"} =>
                  /\ ev'.out.steps = [k \in 1..Len(shown) |-> StepDiv(h, shown[k])]
                  /\ \A k \in 1..Len(shown) : ev'.out.steps[k].label = StepLabel(shown[k])]_vars

\* "crash" has been searched in mode `news`: steps 2, 4 and 5 are shown, the
\* step whose news says "Crash" is not
C18_Witness ==
    /\ Redrawn
    /\ historyFilter = "news"
    /\ historySearch = <<"crash">>
    /\ Len(simulationHistory) = 5
    /\ [k \in 1..Len(ev.out.steps) |-> ev.out.steps[k].label] = <<"Step 2", "Step 4", "Step 5">>

\* --------------------------------------------------------------- SpecNews
\* One update event whose news text is any combination of the keywords, of
\* their lower-case and upper-case look-alikes and of other words.
NewsPieces ==
    {"Very ", "very ", "positive", "negative", "rally", "Rally", "upward", "crash",
     "declin", "steady"}

NewsExamples ==
    {<<"Market ", "rally", ": prices ", "very ", "positive", " today">>,
     <<"Slight ", "negative", " ", "declin", "e">>,
     <<"steady", " session">>}

NewsTexts == NewsExamples \cup UNION {[1..n -> NewsPieces] : n \in 0..MaxNews}

NewsSnap(text) == Snap(1, 100, text, <<Dec("Random", "hold", 0, 1, 100)>>, Llm("hold", 0, 1, 200))

NewsUpdate == \E text \in NewsTexts : sent = 0 /\ Update(NewsSnap(text)) /\ UNCHANGED otherPages

NextNews == NewsUpdate

SpecNews == Init /\ [][NextNews]_vars

\* the text contains the term as it is written
Occurs(text, term) ==
    \E a \in 0..Len(text), b \in 0..Len(text) : a <= b /\ SubSeq(text, a + 1, b) = term

\* the label of the first rule of the fixed order that matches
RuleLabel(text) ==
    CASE Occurs(text, <<"Very ", "positive">>) \/ Occurs(text, <<"rally">>) -> "Bullish"
      [] Occurs(text, <<"positive">>) \/ Occurs(text, <<"upward">>) -> "Positive"
      [] Occurs(text, <<"Very ", "negative">>) \/ Occurs(text, <<"crash">>) -> "Bearish"
      [] Occurs(text, <<"negative">>) \/ Occurs(text, <<"declin">>) -> "Negative"
      [] OTHER -> "Neutral"

\* C19: the sentiment shown for a news text is the label of the first matching
\* rule in the order Bullish ("Very positive", "rally"), Positive ("positive",
\* "upward"), Bearish ("Very negative", "crash"), Negative ("negative",
\* "declin"), and Neutral when no rule matches; letter case counts.
C19_SentimentIsFirstRule ==
    (ev.kind = "update" /\ ~ev.threw /\ simulationHistory # <<>>) =>
        ev.out.sentiment = RuleLabel(simulationHistory[Len(simulationHistory)].news)

\* ------------------------------------------------------------- SpecExport
\* The user exports the history and the ledgers at any moment of a session
\* whose snapshots include a news text with quotes and a backslash.
SnapQuote ==
    Snap(4, 97, <<"say ", "\"", "sell", "\"", " ", "\\", " ", "3">>,
         <<Dec("Trend", "sell", 7, 0, 0 - 12)>>, Llm("sell", 30, 2, 130))

ExportUpdate == \E data \in Snapshots \cup {SnapQuote} :
    sent < MaxUpdates /\ Update(data) /\ UNCHANGED otherPages

ExportHistoryClick == ExportHistory /\ UNCHANGED otherPages

ExportTradersClick == ExportTraderData /\ UNCHANGED otherPages

NextExport == ExportUpdate \/ ExportHistoryClick \/ ExportTradersClick

SpecExport == Init /\ [][NextExport]_vars

\* Reading a JSON text back (JSON.parse), over the same pieces.
ParseError == [t |-> "error", v |-> <<>>]

At(text, pos) == IF pos \in 1..Len(text) THEN text[pos] ELSE ""

IsSpace(piece) == piece \in {"\n", "  ", " "}

\* the first position from pos on that holds no white space
SkipSpace(text, pos) ==
    CHOOSE k \in pos..(Len(text) + 1) :
        /\ k > Len(text) \/ ~IsSpace(text[k])
        /\ \A j \in pos..(k - 1) : IsSpace(text[j])

UnescapePiece(piece) ==
    CASE piece = "\\\"" -> "\""
      [] piece = "\\\\" -> "\\"
      [] OTHER -> piece

\* a string literal that opens at pos
ParseString(text, pos) ==
    LET Closes(c) == text[c] = "\"" /\ \A d \in (pos + 1)..(c - 1) : text[d] # "\""
        close == CHOOSE c \in (pos + 1)..Len(text) : Closes(c)
    IN  IF At(text, pos) # "\"" \/ ~\E c \in (pos + 1)..Len(text) : Closes(c)
        THEN [val |-> ParseError, next |-> pos]
        ELSE [val |-> Str([j \in 1..(close - pos - 1) |-> UnescapePiece(text[pos + j])]),
              next |-> close + 1]

\* a number literal that starts at pos
ParseNumber(text, pos) ==
    LET from == IF At(text, pos) = "-" THEN pos + 1 ELSE pos
        end == CHOOSE k \in from..(Len(text) + 1) :
                   /\ k > Len(text) \/ text[k] \notin Digits
                   /\ \A j \in from..(k - 1) : text[j] \in Digits
        magnitude == DigitsValue(SubSeq(text, from, end - 1), 0)
    IN  IF end = from THEN [val |-> ParseError, next |-> pos]
        ELSE [val |-> Num(IF from > pos THEN 0 - magnitude ELSE magnitude), next |-> end]

\* the one member of a singleton; binding a parse result as the member of a
\* set has it computed once
TheOne(S) == CHOOSE x \in S : TRUE

RECURSIVE ParseValue(_, _), ParseItems(_, _, _), ParseProps(_, _, _)
ParseValue(text, at) ==
    LET pos == SkipSpace(text, at)
    IN  CASE At(text, pos) = "[" -> ParseItems(text, pos + 1, <<>>)
          [] At(text, pos) = "{" -> ParseProps(text, pos + 1, <<>>)
          [] At(text, pos) = "\"" -> ParseString(text, pos)
          [] OTHER -> ParseNumber(text, pos)

\* the items of an array whose bracket has been read, up to the closing one
ParseItems(text, at, acc) ==
    LET pos == SkipSpace(text, at)
        Rest(item) ==
            LET after == SkipSpace(text, item.next)
            IN  IF item.val.t = "error" \/ At(text, after) \notin {",", "]"}
                THEN [val |-> ParseError, next |-> pos]
                ELSE ParseItems(text, IF text[after] = "," THEN after + 1 ELSE after,
                                Append(acc, item.val))
    IN  IF At(text, pos) = "]" THEN [val |-> Arr(acc), next |-> pos + 1]
        ELSE TheOne({Rest(item) : item \in {ParseValue(text, pos)}})

\* the properties of an object whose brace has been read, up to the closing one
ParseProps(text, at, acc) ==
    LET pos == SkipSpace(text, at)
        Rest(key, value) ==
            LET after == SkipSpace(text, value.next)
            IN  IF value.val.t = "error" \/ At(text, after) \notin {",", "}"}
                THEN [val |-> ParseError, next |-> pos]
                ELSE ParseProps(text, IF text[after] = "," THEN after + 1 ELSE after,
                                Append(acc, [key |-> key.val.v, val |-> value.val]))
        Member(key) ==
            LET colon == SkipSpace(text, key.next)
            IN  IF key.val.t = "error" \/ At(text, colon) # ":"
                THEN [val |-> ParseError, next |-> pos]
                ELSE TheOne({Rest(key, value) : value \in {ParseValue(text, colon + 1)}})
    IN  IF At(text, pos) = "}" THEN [val |-> Obj(acc), next |-> pos + 1]
        ELSE TheOne({Member(key) : key \in {ParseString(text, pos)}})

\* the value of a whole text
ParseJson(text) ==
    LET Whole(top) == IF SkipSpace(text, top.next) = Len(text) + 1 THEN top.val
                      ELSE ParseError
    IN  TheOne({Whole(top) : top \in {ParseValue(text, 1)}})

\* two values are deep-equal: the same kind and, part by part, the same content
RECURSIVE DeepEqual(_, _)
DeepEqual(a, b) ==
    /\ a.t = b.t
    /\ a.t # "error"
    /\ a.t = "num" \/ Len(a.v) = Len(b.v)
    /\ CASE a.t = "num" -> a.v = b.v
         [] a.t = "str" -> a.v = b.v
         [] a.t = "arr" -> \A i \in 1..Len(a.v) : DeepEqual(a.v[i], b.v[i])
         [] a.t = "obj" -> \A i \in 1..Len(a.v) :
                              a.v[i].key = b.v[i].key /\ DeepEqual(a.v[i].val, b.v[i].val)

\* C20: reading back the text exportHistory / exportTraderData writes gives a
\* structure equal to simulationHistory / traderHistory (same records, same
\* order, same field names and values), and exporting changes neither.
C20_ExportReadsBackEqual ==
    [][/\ ev'.kind = "exportHistory" =>
             DeepEqual(ParseJson(ev'.out.file), HistoryValue(simulationHistory))
       /\ ev'.kind = "exportTraders" =>
             DeepEqual(ParseJson(ev'.out.file), LedgersValue(traderHistory))
       /\ ev'.kind \in {"exportHistory", "exportTraders"} =>
             UNCHANGED <<simulationHistory, traderHistory>>]_vars

\* a history of two snapshots, one with quotes in its news, has been exported
C20_Witness ==
    /\ ev.kind = "exportHistory"
    /\ Len(simulationHistory) = 2
    /\ SnapQuote \in {simulationHistory[i] : i \in 1..Len(simulationHistory)}
    /\ traderHistory # <<>>
    /\ Len(ev.out.file) > 2

\* -------------------------------------------------------------- SpecStale
\* Two runs of the server. The snapshots of the first run may still be
\* delivered after the second start click; no field of a payload says which
\* run it belongs to.
PriorSnap(k) ==
    Snap(k, 100 + k, <<"steady">>,
         <<Dec("Random", "buy", 10, k, 100 + k), Dec("Holder", "hold", 0, 1, 50)>>,
         Llm("buy", 20, k, 120 + k))

FreshSnap(k) ==
    Snap(k, 200 + k, <<"upward">>,
         <<Dec("Random", "sell", 30, 0, 200 + k)>>, Llm("hold", 40, 0, 240 + k))

PriorSnaps == {PriorSnap(k) : k \in 1..2}

FreshSnaps == {FreshSnap(k) : k \in 1..2}

StalePrior == \E data \in PriorSnaps :
    sent < MaxStale /\ emitted >= 1 /\ Update(data) /\ UNCHANGED otherPages

StaleFresh == \E data \in FreshSnaps :
    sent < MaxStale /\ emitted = 2 /\ Update(data) /\ UNCHANGED otherPages

StaleStart == emitted < 2 /\ StartClick /\ UNCHANGED otherPages

StalePause == PauseClick /\ UNCHANGED otherPages

StaleFinished == emitted = 1 /\ startBtnDisabled /\ Finished(NoPayload) /\ UNCHANGED otherPages

NextStale == StalePrior \/ StaleFresh \/ StaleStart \/ StalePause \/ StaleFinished

SpecStale == Init /\ [][NextStale]_vars

\* the newest ledger record of the name
LastRecord(th, n) == Get(th, n)[Len(Get(th, n))]

\* C21: a snapshot of the first run delivered after the second start click is
\* handled like any snapshot: when the pause flag is clear it is appended to
\* the history of the new run, its point enters the price window, its values
\* enter the index, its recognized actions are counted and its records are
\* appended to the ledgers; nothing in the handler depends on its origin.
C21_StaleAppliedAsCurrent ==
    [][(ev'.kind = "update" /\ ~isPaused)
           => LET d == delivered'[Len(delivered')]
              IN  /\ Len(delivered') = Len(delivered) + 1
                  /\ simulationHistory' = Append(simulationHistory, d)
                  /\ priceLabels' = NewestLabels(delivered')
                  /\ priceData' = NewestPrices(delivered')
                  /\ KeySet(agentPerformance')
                       = KeySet(agentPerformance) \cup NamesOf(d.decisions) \cup {LLMFund}
                  /\ \A n \in KeySet(agentPerformance') :
                         Get(agentPerformance', n) =
                             IF n \in NamesOf(d.decisions) \cup {LLMFund}
                             THEN NewestValue(<<d>>, n) ELSE Get(agentPerformance, n)
                  /\ \A a \in Recognized :
                         Get(actionCounts', a) = Get(actionCounts, a) + ActionCount(<<d>>, a)
                  /\ KeySet(traderHistory')
                       = KeySet(traderHistory) \cup NamesOf(d.decisions) \cup {LLMFund}
                  /\ \A n \in KeySet(traderHistory') :
                         /\ Len(Get(traderHistory', n)) = LedgerLen(n) + RecordsFor(<<d>>, n)
                         /\ RecordsFor(<<d>>, n) > 0 =>
                                /\ LastRecord(traderHistory', n).step = d.step
                                /\ LastRecord(traderHistory', n).value = NewestValue(<<d>>, n)
                  /\ ~ev'.threw]_vars

\* the new run has accepted one of its own snapshots and then a snapshot of
\* the first run
C21_Witness ==
    /\ ev.kind = "update"
    /\ emitted = 2
    /\ startBtnDisabled
    /\ simulationHistory = <<FreshSnap(1), PriorSnap(2)>>
    /\ Get(agentPerformance, "Holder") = 50
    /\ Get(agentPerformance, LLMFund) = 122
    /\ Get(actionCounts, "buy") = 1
    /\ Len(Get(traderHistory, LLMFund)) = 2
    /\ priceLabels[Len(priceLabels)] = "Step 2"

\* C22: the pause flag changes at a click on the pause button and at no other
\* event, so a start click and simulation_finished leave it as it is; a run
\* started with the flag set takes no snapshot until the flag is cleared, and
\* a snapshot dropped that way never enters the store later: the history
\* grows only by the payload being delivered, with the flag clear.
C22_PauseIndependentOfRun ==
    [][/\ (ev'.kind \in {"start", "finished"} => isPaused' = isPaused)
       /\ (isPaused' # isPaused => ev'.kind = "pause")
       /\ (ev'.kind = "pause" => isPaused' = ~isPaused)
       /\ ((ev'.kind = "update" /\ isPaused) =>
              (UNCHANGED <<store, window>> /\ delivered' = delivered))
       /\ (ev'.kind \notin {"start", "finished", "update"} => UNCHANGED store)
       /\ ((ev'.kind = "update" /\ simulationHistory' # simulationHistory) =>
              /\ ~isPaused
              /\ delivered' = Append(delivered, delivered'[Len(delivered')])
              /\ simulationHistory' =
                     Append(simulationHistory, delivered'[Len(delivered')]))]_vars

\* the run was started and both snapshots delivered so far were dropped with
\* the flag set: the store of the run is still empty
C22_Witness ==
    /\ ev.kind = "update"
    /\ isPaused
    /\ startBtnDisabled
    /\ emitted = 1
    /\ sent = 2
    /\ delivered = <<>>
    /\ StoreEmpty

\* the news text of the update handled last
NewsShown == simulationHistory[Len(simulationHistory)].news

StrongPositive(text) == Occurs(text, <<"Very ", "positive">>) \/ Occurs(text, <<"rally">>)

StrongNegative(text) == Occurs(text, <<"Very ", "negative">>) \/ Occurs(text, <<"crash">>)

WeakPositive(text) == Occurs(text, <<"positive">>) \/ Occurs(text, <<"upward">>)

\* C23 as stated: a text containing "Very positive" is shown as Bullish, and a
\* text containing "Very negative" or "crash" is shown as Bearish or Bullish,
\* whatever other keywords it contains.
C23_StrongNeverWeak ==
    (ev.kind = "update" /\ ~ev.threw /\ simulationHistory # <<>>) =>
        /\ Occurs(NewsShown, <<"Very ", "positive">>) => ev.out.sentiment = "Bullish"
        /\ StrongNegative(NewsShown) => ev.out.sentiment \in {"Bearish", "Bullish"}

\* C23 amended: a text containing "Very positive" or "rally" is shown as
\* Bullish. A text containing "Very negative" or "crash" is never shown as
\* Negative or neutral: it is shown as Bullish when it also contains
\* "Very positive" or "rally", else as Positive when it also contains
\* "positive" or "upward", else as Bearish.
C23_StrongUnlessPositiveWord ==
    (ev.kind = "update" /\ ~ev.threw /\ simulationHistory # <<>>) =>
        /\ StrongPositive(NewsShown) => ev.out.sentiment = "Bullish"
        /\ StrongNegative(NewsShown) =>
               ev.out.sentiment =
                   (IF StrongPositive(NewsShown) THEN "Bullish"
                    ELSE IF WeakPositive(NewsShown) THEN "Positive" ELSE "Bearish")

\* "crash" next to "upward" is shown as Positive
C23_Witness ==
    /\ ev.kind = "update"
    /\ NewsShown = <<"crash", "upward">>
    /\ ev.out.sentiment = "Positive"

\* --------------------------------------------------------------- SpecPair
\* The page of part_000 and the page of dashboard.js side by side: every
\* event (a well-formed update, simulation_finished, a click on the start
\* button or on the pause button) is applied to both.
PairUpdate ==
    \E data \in Snapshots :
        /\ sent < MaxUpdates
        /\ Update(data)
        /\ dashboard' = DashUpdate(dashboard, data)
        /\ UNCHANGED minimal

PairStart ==
    /\ emitted < MaxStarts
    /\ StartClick
    /\ ~dashboard.startBtnDisabled
    /\ dashboard' = DashStartClick(dashboard)
    /\ UNCHANGED minimal

PairPause ==
    /\ PauseClick
    /\ dashboard' = DashPauseClick(dashboard)
    /\ UNCHANGED minimal

PairFinished ==
    \E payload \in Payloads :
        /\ Finished(payload)
        /\ dashboard' = DashFinished(dashboard)
        /\ UNCHANGED minimal

NextPair == PairUpdate \/ PairStart \/ PairPause \/ PairFinished

SpecPair == Init /\ [][NextPair]_vars

\* C24: after every event applied to both pages, the page of dashboard.js and
\* the page of part_000 have the same pause flag, the same price window
\* (labels and prices), the same performance index (names in the same order,
\* same values) and the same tally.
C24_VariantsAgree ==
    /\ dashboard.isPaused = isPaused
    /\ dashboard.priceLabels = priceLabels
    /\ dashboard.priceData = priceData
    /\ dashboard.agentPerformance = agentPerformance
    /\ dashboard.actionCounts = actionCounts

\* each run of both pages has accepted one snapshot: the index and the tally
\* are those of the second run, the window still holds the point of the first
C24_Witness ==
    /\ ev.kind = "update"
    /\ emitted = 2
    /\ sent = 2
    /\ Len(simulationHistory) = 1
    /\ Len(dashboard.priceLabels) = 2
    /\ Get(dashboard.agentPerformance, LLMFund) = 141
    /\ Get(dashboard.actionCounts, "sell") = 1
    /\ dashboard.startBtnDisabled

\* --------------------------------------------------------------- SpecMini
\* The page of part_001 on its own: one long stream of update events, the
\* first ClickEarly of them with either of two prices, and clicks on its
\* start button, which is never disabled.
page ==
    <<isPaused, startBtnDisabled, store, window, views, controls, emitted, sent,
      delivered, runStart, ev>>

MiniPrices(k) == IF k <= ClickEarly THEN {100 + k, 200 + k} ELSE {100 + k}

MiniOnUpdate ==
    \E price \in MiniPrices(Len(minimal.data) + 1) :
        /\ Len(minimal.data) < MaxStream
        /\ minimal' = MiniUpdate(minimal, [StreamSnap(Len(minimal.data) + 1)
                                              EXCEPT !.price = price])
        /\ UNCHANGED <<page, dashboard>>

MiniOnStart ==
    /\ minimal.emitted < MaxStarts
    /\ minimal' = MiniStartClick(minimal)
    /\ UNCHANGED <<page, dashboard>>

NextMini == MiniOnUpdate \/ MiniOnStart

SpecMini == Init /\ [][NextMini]_vars

\* C25: the price series of the page of part_001 never holds more than 30
\* points, labels and prices alike.
C25_MinimalSeriesBounded ==
    /\ Len(minimal.data) <= WindowMax
    /\ Len(minimal.labels) <= WindowMax

\* C26: when the handler of an accepted update has completed, the comparison
\* chart holds one (name, value) pair per name of the performance index, with
\* the index's value, the pair of "LLM Fund" carrying the portfolio value of
\* the snapshot just accepted, and the actions chart holds the buy, sell and
\* hold counters of the tally in that order.
C26_ViewsProjectIndexAndTally ==
    [][(ev'.kind = "update" /\ ~isPaused)
           => LET d == delivered'[Len(delivered')]
                  labels == comparisonView'.labels
                  data == comparisonView'.data
              IN  /\ Len(data) = Len(labels)
                  /\ Len(labels) = Cardinality(KeySet(agentPerformance'))
                  /\ {labels[i] : i \in 1..Len(labels)} = KeySet(agentPerformance')
                  /\ \A i \in 1..Len(labels) : data[i] = Get(agentPerformance', labels[i])
                  /\ \E i \in 1..Len(labels) :
                         labels[i] = LLMFund /\ data[i] = d.llm.portfolio.value
                  /\ Len(actionsView') = 3
                  /\ actionsView'[1] = Get(actionCounts', "buy")
                  /\ actionsView'[2] = Get(actionCounts', "sell")
                  /\ actionsView'[3] = Get(actionCounts', "hold")]_vars

C26_Witness ==
    /\ ev.kind = "update"
    /\ Accepted = <<SnapA, SnapB>>
    /\ comparisonView.labels = <<"Random", "Holder", LLMFund>>
    /\ comparisonView.data = <<90, 0, 141>>
    /\ actionsView = <<1, 1, 1>>

\* every ledger of th is still there in th2 and has not become shorter
LedgersKept(th, th2) ==
    \A n \in KeySet(th) : Has(th2, n) /\ Len(Get(th2, n)) >= Len(Get(th, n))

\* C27: on both pages a start click disables the start button and only
\* simulation_finished enables it again; while it is disabled no
\* start_simulation command is emitted and no handler resets the store: the
\* history and the ledgers do not shrink, the index loses no name and no
\* counter of the tally decreases, until simulation_finished is handled.
C27_NoSecondStartInRun ==
    [][/\ (ev'.kind = "start" =>
              /\ ~startBtnDisabled /\ startBtnDisabled' /\ emitted' = emitted + 1
              /\ ~dashboard.startBtnDisabled /\ dashboard'.startBtnDisabled)
       /\ ((startBtnDisabled /\ ~startBtnDisabled') => ev'.kind = "finished")
       /\ ((dashboard.startBtnDisabled /\ ~dashboard'.startBtnDisabled)
              => ev'.kind = "finished")
       /\ (startBtnDisabled => (ev'.kind # "start" /\ emitted' = emitted))
       /\ ((startBtnDisabled /\ ev'.kind # "finished") =>
              /\ Len(simulationHistory') >= Len(simulationHistory)
              /\ LedgersKept(traderHistory, traderHistory')
              /\ KeySet(agentPerformance) \subseteq KeySet(agentPerformance')
              /\ \A a \in Recognized : Get(actionCounts', a) >= Get(actionCounts, a))
       /\ (dashboard.startBtnDisabled =>
              /\ KeySet(dashboard.agentPerformance) \subseteq KeySet(dashboard'.agentPerformance)
              /\ \A a \in Recognized :
                     Get(dashboard'.actionCounts, a) >= Get(dashboard.actionCounts, a))]_vars

\* the second start click of a session, possible only after
\* simulation_finished had enabled the button again; both pages have reset
C27_Witness ==
    /\ ev.kind = "start"
    /\ emitted = 2
    /\ Len(delivered) = 2
    /\ runStart = 2
    /\ startBtnDisabled
    /\ dashboard.startBtnDisabled
    /\ dashboard.agentPerformance = <<>>

\* C28: from a start click until the first snapshot accepted after it, the
\* comparison chart is empty, the actions chart shows 0, 0, 0 and the
\* performance chart has no labels and no series.
C28_ViewsEmptyAfterStart ==
    (emitted > 0 /\ RunDelivered = <<>>) =>
        /\ comparisonView = [labels |-> <<>>, data |-> <<>>]
        /\ actionsView = <<0, 0, 0>>
        /\ perfView = [labels |-> <<>>, datasets |-> <<>>]

\* C29 as stated, for an update delivered right after simulation_finished
\* with a history payload: simulationHistory is still that payload after it,
\* the update is not appended.
C29_HistoryFrozenAfterFinished ==
    [][(ev.kind = "finished" /\ ev.payload.has /\ ev'.kind = "update")
           => simulationHistory' = ev.payload.history]_vars

\* C29 amended: simulationHistory is the history payload when the
\* simulation_finished handler has completed, and it keeps its value at every
\* later event except a start click (emptied), another simulation_finished
\* with a payload (replaced) and an update handled while the pause flag is
\* clear: such an update, also one delivered after simulation_finished and
\* before the next start click, is appended after the authoritative records.
C29_HistoryUntilNextAccepted ==
    [][/\ ((ev.kind = "finished" /\ ev.payload.has) =>
              simulationHistory = ev.payload.history)
       /\ simulationHistory' =
              (CASE ev'.kind = "update" /\ ~isPaused ->
                        Append(simulationHistory, delivered'[Len(delivered')])
                 [] ev'.kind = "start" -> <<>>
                 [] ev'.kind = "finished" /\ ev'.payload.has -> ev'.payload.history
                 [] OTHER -> simulationHistory)]_vars

\* an update accepted after simulation_finished has been appended to the
\* authoritative history of two records
C29_Witness ==
    /\ ev.kind = "update"
    /\ ~startBtnDisabled
    /\ emitted = 1
    /\ Len(simulationHistory) = 3
    /\ SubSeq(simulationHistory, 1, 2) = <<SnapA, SnapB>>
    /\ simulationHistory[3] = SnapDup
    /\ LedgerLen(LLMFund) = 2

\* -------------------------------------------------------------- SpecNames
\* A session in which one trader carries a name that every object literal
\* inherits from Object.prototype.
SnapProto ==
    Snap(2, 103, <<"steady">>,
         <<Dec("Random", "buy", 20, 1, 105), Dec("constructor", "sell", 1, 1, 60),
           Dec("Holder", "hold", 0, 2, 0)>>,
         Llm("hold", 40, 1, 142))

NamesUpdate ==
    \E data \in {SnapA, SnapProto} :
        sent < MaxUpdates /\ Update(data) /\ UNCHANGED otherPages

NamesStart == emitted < MaxStarts /\ StartClick /\ UNCHANGED otherPages

NamesPause == PauseClick /\ UNCHANGED otherPages

NamesFinished == startBtnDisabled /\ Finished(NoPayload) /\ UNCHANGED otherPages

NextNames == NamesUpdate \/ NamesStart \/ NamesPause \/ NamesFinished

SpecNames == Init /\ [][NextNames]_vars

\* C30: between handlers the performance index and the ledgers name the same
\* traders, and the index value of each name is the value of the newest
\* record of that name's ledger.
C30_IndexMatchesLedgers ==
    /\ KeySet(agentPerformance) = KeySet(traderHistory)
    /\ \A n \in KeySet(traderHistory) :
           /\ Get(traderHistory, n) # <<>>
           /\ Get(agentPerformance, n) = LastRecord(traderHistory, n).value

\* the ledger of the fund, empty when there is none
FundLedger == IF Has(traderHistory, LLMFund) THEN Get(traderHistory, LLMFund) ELSE <<>>

FundPairsOf(d) ==
    [j \in 1..Len(SelectSeq(d.decisions, LAMBDA x : x.name = LLMFund)) |->
        <<d.step, SelectSeq(d.decisions, LAMBDA x : x.name = LLMFund)[j].value>>]
      \o <<<<d.step, d.llm.portfolio.value>>>>

RECURSIVE FundPairs(_)
FundPairs(h) ==
    IF h = <<>> THEN <<>>
    ELSE FundPairs(SubSeq(h, 1, Len(h) - 1)) \o FundPairsOf(h[Len(h)])

====
